---- MODULE Spec2Model ----
(***************************************************************************)
(* A model of the TWKB decoder (package twkb).  The program has one       *)
(* operation, Decode(r io.Reader) (Geometry, error); everything else is a *)
(* helper it calls.  The helpers are operators that take the decoder      *)
(* record d (Go passes *decoder and mutates it) and return the record     *)
(* [d, v, err]: the decoder after the call, the value and the error.      *)
(*                                                                         *)
(* Representation of the Go values:                                        *)
(*   uint64 / int64  a word <<l0, l1, l2>> of three limbs (21, 21 and 22   *)
(*                   bits, least significant first), the same bit pattern  *)
(*                   for both types: arithmetic is modulo 2^64.            *)
(*   float64         the pair [num, den] of the operands of the one float  *)
(*                   division that produces it, float64(num)/float64(den). *)
(*   error           "nil", "EOF" (whatever the reader returns),           *)
(*                   "ErrUnknownGeom"; "panic" stands for a run-time panic *)
(*                   that unwinds every frame of the call.                 *)
(*   nil pointers    NilGeom, NilHdr; a nil slice is <<>>.                 *)
(***************************************************************************)
EXTENDS Integers, Sequences, FiniteSets, TLC

VARIABLES r, pc, geom, err

vars == <<r, pc, geom, err>>

(***************************************************************************)
(* Program constants.                                                      *)
(***************************************************************************)
POINT == 1
LINESTRING == 2
POLYGON == 3
MULTIPOINT == 4
MULTILINESTRING == 5
MULTIPOLYGON == 6
GEOMETRYCOLLECTION == 7

XY == 0
XYZ == 1
XYM == 2
XYZM == 3

bbox == 1
size == 2
idlist == 4
exprec == 8
empty == 16

Nil == "nil"
EOF == "EOF"
ErrUnknownGeom == "ErrUnknownGeom"
Panic == "panic"

NilGeom == [go |-> "nil"]
NilHdr == [nil |-> TRUE]

(***************************************************************************)
(* 64-bit words.                                                           *)
(***************************************************************************)
Limb == 2^21
TopLimb == 2^22

Zero == <<0, 0, 0>>
One == <<1, 0, 0>>

\* uint64(n) of a small non-negative n (n < 2^31)
U64(n) == <<n % Limb, n \div Limb, 0>>

\* x + y modulo 2^64
Add(x, y) ==
  LET s0 == x[1] + y[1]
      s1 == x[2] + y[2] + (s0 \div Limb)
      s2 == x[3] + y[3] + (s1 \div Limb)
  IN <<s0 % Limb, s1 % Limb, s2 % TopLimb>>

\* ^x, the bitwise complement
Not(x) == <<Limb - 1 - x[1], Limb - 1 - x[2], TopLimb - 1 - x[3]>>

\* -x modulo 2^64
Neg(x) == Add(Not(x), One)

\* x - y modulo 2^64
Sub(x, y) == Add(x, Neg(y))

\* x >> 1 of a uint64
Shr1(x) ==
  <<(x[1] \div 2) + (x[2] % 2) * (Limb \div 2),
    (x[2] \div 2) + (x[3] % 2) * (Limb \div 2),
    x[3] \div 2>>

\* uint64(b) << s for a byte b; Go gives 0 for a shift count of 64 or more
Shl(b, s) ==
  IF s >= 64 THEN Zero
  ELSE IF s < 21 THEN <<(b * 2^s) % Limb, (b * 2^s) \div Limb, 0>>
  ELSE IF s < 42 THEN <<0, (b * 2^(s - 21)) % Limb, (b * 2^(s - 21)) \div Limb>>
  ELSE <<0, 0, (b * 2^(s - 42)) % TopLimb>>

\* a | b of two non-negative integers
RECURSIVE OrInt(_, _)
OrInt(a, b) ==
  IF a = 0 THEN b
  ELSE IF b = 0 THEN a
  ELSE (IF a % 2 = 1 \/ b % 2 = 1 THEN 1 ELSE 0) + 2 * OrInt(a \div 2, b \div 2)

\* a & b of two non-negative integers
RECURSIVE AndInt(_, _)
AndInt(a, b) ==
  IF a = 0 \/ b = 0 THEN 0
  ELSE (IF a % 2 = 1 /\ b % 2 = 1 THEN 1 ELSE 0) + 2 * AndInt(a \div 2, b \div 2)

\* x | y of two words
Or(x, y) == <<OrInt(x[1], y[1]), OrInt(x[2], y[2]), OrInt(x[3], y[3])>>

\* the sign bit of an int64
IsNeg(x) == x[3] >= Limb

\* x < y as uint64
ULess(x, y) ==
  \/ x[3] < y[3]
  \/ x[3] = y[3] /\ x[2] < y[2]
  \/ x[3] = y[3] /\ x[2] = y[2] /\ x[1] < y[1]

\* x < y as int64
SLess(x, y) ==
  IF IsNeg(x) # IsNeg(y) THEN IsNeg(x) ELSE ULess(x, y)

\* the integer an int64 holds, for the values that fit a model integer
ToInt(x) ==
  IF IsNeg(x)
  THEN -(Not(x)[1] + Not(x)[2] * Limb) - 1
  ELSE x[1] + x[2] * Limb

\* whether ToInt is exact: |x| < 2^30
Small(x) ==
  IF IsNeg(x) THEN Not(x)[3] = 0 /\ Not(x)[2] < 512 ELSE x[3] = 0 /\ x[2] < 512

\* x \div k of a uint64, for a small divisor k
DivSmall(x, k) ==
  LET q2 == x[3] \div k
      r2 == x[3] % k
      q1 == (r2 * Limb + x[2]) \div k
      r1 == (r2 * Limb + x[2]) % k
      q0 == (r1 * Limb + x[1]) \div k
  IN <<q0, q1, q2>>

MaxInt64 == <<Limb - 1, Limb - 1, Limb - 1>>
MinInt64 == <<0, 0, Limb>>

(***************************************************************************)
(* The reader and the decoder record.                                      *)
(***************************************************************************)
\* bytes.NewReader(data): the io.Reader a caller hands to Decode; eof records
\* that a Read has failed
NewReader(data) == [data |-> data, pos |-> 0, eof |-> FALSE]

\* &decoder{r: r}: every other field has its zero value
newDecoder(rd) ==
  [r |-> rd,
   refpoint |-> <<Zero, Zero, Zero, Zero>>,
   factors |-> <<0, 0, 0, 0>>,
   ndims |-> 0,
   bbox |-> FALSE, size |-> FALSE, idlist |-> FALSE, empty |-> FALSE,
   length |-> Zero]

\* d.read(&v) for a uint8 v: binary.Read reads exactly one byte or fails
read(d) ==
  IF d.r.pos < Len(d.r.data)
  THEN [d |-> [d EXCEPT !.r.pos = @ + 1], v |-> d.r.data[d.r.pos + 1], err |-> Nil]
  ELSE [d |-> [d EXCEPT !.r.eof = TRUE], v |-> 0, err |-> EOF]

unzigzag(nVal) ==
  IF nVal[1] % 2 = 0
  THEN Shr1(nVal)
  ELSE Sub(Neg(Shr1(nVal)), One)

(***************************************************************************)
(* Varints.  An operator named f_step is the part of the Go function f    *)
(* that runs once the call in its last argument has returned.              *)
(***************************************************************************)
RECURSIVE readVarInt64_loop(_, _, _)

\* lines 428-438: the byte of this turn of the loop has been read
readVarInt64_byte(val, shift, rd) ==
  IF rd.err # Nil THEN [d |-> rd.d, v |-> Zero, err |-> rd.err]
  ELSE IF rd.v < 128
       THEN [d |-> rd.d, v |-> Or(val, Shl(rd.v, shift)), err |-> Nil]
       ELSE readVarInt64_loop(rd.d, Or(val, Shl(rd.v - 128, shift)), shift + 7)

\* lines 426-439: one turn of the loop
readVarInt64_loop(d, val, shift) == readVarInt64_byte(val, shift, read(d))

readVarInt64(d) == readVarInt64_loop(d, Zero, 0)

\* lines 445-449
readVarSInt64_val(rv) ==
  IF rv.err # Nil THEN [d |-> rv.d, v |-> Zero, err |-> rv.err]
  ELSE [d |-> rv.d, v |-> unzigzag(rv.v), err |-> Nil]

readVarSInt64(d) == readVarSInt64_val(readVarInt64(d))

\* make([]T, n) panics (runtime.makeslice: len out of range) when n is negative
\* or n elements of et bytes exceed the runtime's maxAlloc, 2^48 on amd64;
\* within that the allocation is taken to succeed
makePanics(et, n) == IsNeg(n) \/ ULess(DivSmall(<<0, 0, 64>>, et), n)

RECURSIVE readIDList_loop(_, _, _, _)

\* lines 460-464
readIDList_id(ngeoms, idx, ids, rv) ==
  IF rv.err # Nil THEN [d |-> rv.d, v |-> <<>>, err |-> rv.err]
  ELSE readIDList_loop(rv.d, ngeoms, idx + 1, Append(ids, rv.v))

\* readIDList_loop with the id read as an unsigned varint (readVarInt64 in the
\* place of readVarSInt64)
readIDList_loopUnsigned(d, ngeoms, idx, ids) ==
  IF ~SLess(U64(idx), ngeoms) THEN [d |-> d, v |-> ids, err |-> Nil]
  ELSE readIDList_id(ngeoms, idx, ids, readVarInt64(d))

\* lines 457-467
readIDList_loop(d, ngeoms, idx, ids) ==
  IF ~SLess(U64(idx), ngeoms) THEN [d |-> d, v |-> ids, err |-> Nil]
  ELSE readIDList_id(ngeoms, idx, ids, readVarSInt64(d))

readIDList(d, ngeoms) ==
  IF makePanics(8, ngeoms) THEN [d |-> d, v |-> <<>>, err |-> Panic]
  ELSE readIDList_loop(d, ngeoms, 0, <<>>)

\* lines 482-486
readMHdr_ids(ngeoms, ri) ==
  [d |-> ri.d, v |-> [idlist |-> ri.v, ngeoms |-> ngeoms], err |-> ri.err]

\* lines 475-489
readMHdr_ngeoms(rv) ==
  IF rv.err # Nil
  THEN [d |-> rv.d, v |-> [idlist |-> <<>>, ngeoms |-> Zero], err |-> rv.err]
  ELSE IF rv.d.idlist
       THEN readMHdr_ids(rv.v, readIDList(rv.d, rv.v))
       ELSE [d |-> rv.d, v |-> [idlist |-> <<>>, ngeoms |-> rv.v], err |-> Nil]

readMHdr(d) == readMHdr_ngeoms(readVarInt64(d))

(***************************************************************************)
(* Coordinates.  The conversions to float64 are taken as exact.            *)
(***************************************************************************)
\* a < b for the float64 values a and b: two quotients by the same factor
\* compare as their numerators do; against the initial bounds of readCoords
\* (MaxInt64 and MinInt64, den 1) a quotient by a larger factor lies inside
FloatLess(a, b) ==
  IF a.den = b.den THEN SLess(a.num, b.num)
  ELSE (b.den = 1 /\ b.num = MaxInt64) \/ (a.den = 1 /\ a.num = MinInt64)

\* lines 378-384
initBBox(d) ==
  IF d.bbox THEN <<>>
  ELSE [idx \in 1..(d.ndims * 2) |->
          IF idx <= d.ndims THEN [num |-> MaxInt64, den |-> 1]
          ELSE [num |-> MinInt64, den |-> 1]]

\* lines 402-404
growMax(n, bb, j, c) ==
  IF FloatLess(bb[j + 1 + n], c) THEN [bb EXCEPT ![j + 1 + n] = c] ELSE bb

\* lines 398-400
growMin(bb, j, c) ==
  IF FloatLess(c, bb[j + 1]) THEN [bb EXCEPT ![j + 1] = c] ELSE bb

\* lines 397-405
growBBox(n, bb, j, c) ==
  IF bb = <<>> THEN bb ELSE growMax(n, growMin(bb, j, c), j, c)

\* line 395: float64(d.refpoint[j]) / float64(d.factors[j])
coordOf(d, j) == [num |-> d.refpoint[j + 1], den |-> d.factors[j + 1]]

RECURSIVE readCoords_dims(_, _, _, _)

\* lines 395-405: the reference point has moved
readCoords_put(d, j, coord, bb) ==
  readCoords_dims(d, j + 1, Append(coord, coordOf(d, j)),
                  growBBox(d.ndims, bb, j, coordOf(d, j)))

\* lines 390-394
readCoords_val(j, coord, bb, rv) ==
  IF rv.err # Nil THEN [d |-> rv.d, coord |-> <<>>, bb |-> <<>>, err |-> rv.err]
  ELSE readCoords_put([rv.d EXCEPT !.refpoint[j + 1] = Add(@, rv.v)], j, coord, bb)

\* lines 387-406: the dimensions of one coordinate
readCoords_dims(d, j, coord, bb) ==
  IF j >= d.ndims THEN [d |-> d, coord |-> coord, bb |-> bb, err |-> Nil]
  ELSE readCoords_val(j, coord, bb, readVarSInt64(d))

RECURSIVE readCoords_loop(_, _, _, _, _)

\* line 407
readCoords_coord(n, i, coords, rc) ==
  IF rc.err # Nil THEN [d |-> rc.d, v |-> <<>>, bb |-> <<>>, err |-> rc.err]
  ELSE readCoords_loop(rc.d, n, i + 1, Append(coords, rc.coord), rc.bb)

\* lines 385-411
readCoords_loop(d, n, i, coords, bb) ==
  IF ~SLess(U64(i), n) THEN [d |-> d, v |-> coords, bb |-> bb, err |-> Nil]
  ELSE readCoords_coord(n, i, coords, readCoords_dims(d, 0, <<>>, bb))

\* n is the int the caller converted the count to
readCoords(d, n) ==
  IF makePanics(24, n) THEN [d |-> d, v |-> <<>>, bb |-> <<>>, err |-> Panic]
  ELSE readCoords_loop(d, n, 0, <<>>, initBBox(d))

(***************************************************************************)
(* Body decoders.  h is the header the geometry gets, NilHdr for the nil   *)
(* the Multi* decoders pass.                                                *)
(***************************************************************************)
\* lines 217-225, 241-249: the header a Point or LineString is built with
withBBox(h, bb) ==
  IF h # NilHdr /\ bb # <<>> THEN [h EXCEPT !.bbox = bb] ELSE h

\* lines 213-225
decodePoint_coords(h, rc) ==
  IF rc.err # Nil THEN [d |-> rc.d, v |-> NilGeom, err |-> rc.err]
  ELSE [d |-> rc.d,
        v |-> [go |-> "Point", Hdr |-> withBBox(h, rc.bb), Coord |-> rc.v[1]],
        err |-> Nil]

decodePoint(d, h) == decodePoint_coords(h, readCoords(d, One))

\* lines 237-249
decodeLineString_coords(h, rc) ==
  IF rc.err # Nil THEN [d |-> rc.d, v |-> NilGeom, err |-> rc.err]
  ELSE [d |-> rc.d,
        v |-> [go |-> "LineString", Hdr |-> withBBox(h, rc.bb), Coords |-> rc.v],
        err |-> Nil]

\* lines 231-235
decodeLineString_size(h, rv) ==
  IF rv.err # Nil THEN [d |-> rv.d, v |-> NilGeom, err |-> rv.err]
  ELSE decodeLineString_coords(h, readCoords(rv.d, rv.v))

decodeLineString(d, h) == decodeLineString_size(h, readVarInt64(d))

RECURSIVE decodePolygon_loop(_, _, _, _)

\* line 268: err is assigned by readCoords and not looked at: the next turn
\* overwrites it and the end of the loop drops it; the ring of a failed
\* readCoords is nil.  A panic is no error value and unwinds.
decodePolygon_ring(n, ring, rings, rc) ==
  IF rc.err = Panic THEN [d |-> rc.d, v |-> <<>>, err |-> Panic]
  ELSE decodePolygon_loop(rc.d, n, ring + 1, Append(rings, rc.v))

\* lines 262-268
decodePolygon_ringSize(n, ring, rings, rv) ==
  IF rv.err # Nil THEN [d |-> rv.d, v |-> <<>>, err |-> rv.err]
  ELSE decodePolygon_ring(n, ring, rings, readCoords(rv.d, rv.v))

\* lines 261-269
decodePolygon_loop(d, n, ring, rings) ==
  IF ~SLess(U64(ring), n) THEN [d |-> d, v |-> rings, err |-> Nil]
  ELSE decodePolygon_ringSize(n, ring, rings, readVarInt64(d))

\* lines 271-275
decodePolygon_rings(h, rr) ==
  IF rr.err # Nil THEN [d |-> rr.d, v |-> NilGeom, err |-> rr.err]
  ELSE [d |-> rr.d, v |-> [go |-> "Polygon", Hdr |-> h, Rings |-> rr.v], err |-> Nil]

\* lines 255-260
decodePolygon_size(h, rv) ==
  IF rv.err # Nil THEN [d |-> rv.d, v |-> NilGeom, err |-> rv.err]
  ELSE IF makePanics(24, rv.v) THEN [d |-> rv.d, v |-> NilGeom, err |-> Panic]
  ELSE decodePolygon_rings(h, decodePolygon_loop(rv.d, rv.v, 0, <<>>))

decodePolygon(d, h) == decodePolygon_size(h, readVarInt64(d))

RECURSIVE decodeMultiPoint_loop(_, _, _, _)

\* lines 291-295
decodeMultiPoint_point(n, idx, points, p) ==
  IF p.err # Nil THEN [d |-> p.d, v |-> <<>>, err |-> p.err]
  ELSE decodeMultiPoint_loop(p.d, n, idx + 1, Append(points, p.v))

\* lines 288-296
decodeMultiPoint_loop(d, n, idx, points) ==
  IF ~SLess(U64(idx), n) THEN [d |-> d, v |-> points, err |-> Nil]
  ELSE decodeMultiPoint_point(n, idx, points, decodePoint(d, NilHdr))

\* line 298
decodeMultiPoint_points(h, m, ms) ==
  IF ms.err # Nil THEN [d |-> ms.d, v |-> NilGeom, err |-> ms.err]
  ELSE [d |-> ms.d,
        v |-> [go |-> "MultiPoint", Hdr |-> h, Ids |-> m.idlist, Points |-> ms.v],
        err |-> Nil]

\* lines 282-286
decodeMultiPoint_mhdr(h, m) ==
  IF m.err # Nil THEN [d |-> m.d, v |-> NilGeom, err |-> m.err]
  ELSE IF makePanics(32, m.v.ngeoms) THEN [d |-> m.d, v |-> NilGeom, err |-> Panic]
  ELSE decodeMultiPoint_points(h, m.v, decodeMultiPoint_loop(m.d, m.v.ngeoms, 0, <<>>))

decodeMultiPoint(d, h) == decodeMultiPoint_mhdr(h, readMHdr(d))

RECURSIVE decodeMultiLineString_loop(_, _, _, _)

\* lines 314-318
decodeMultiLineString_line(n, idx, lines, p) ==
  IF p.err # Nil THEN [d |-> p.d, v |-> <<>>, err |-> p.err]
  ELSE decodeMultiLineString_loop(p.d, n, idx + 1, Append(lines, p.v))

\* lines 311-319
decodeMultiLineString_loop(d, n, idx, lines) ==
  IF ~SLess(U64(idx), n) THEN [d |-> d, v |-> lines, err |-> Nil]
  ELSE decodeMultiLineString_line(n, idx, lines, decodeLineString(d, NilHdr))

\* line 321
decodeMultiLineString_lines(h, m, ms) ==
  IF ms.err # Nil THEN [d |-> ms.d, v |-> NilGeom, err |-> ms.err]
  ELSE [d |-> ms.d,
        v |-> [go |-> "MultiLineString", Hdr |-> h, Ids |-> m.idlist,
               LineStrings |-> ms.v],
        err |-> Nil]

\* lines 303-309
decodeMultiLineString_mhdr(h, m) ==
  IF m.err # Nil THEN [d |-> m.d, v |-> NilGeom, err |-> m.err]
  ELSE IF makePanics(32, m.v.ngeoms) THEN [d |-> m.d, v |-> NilGeom, err |-> Panic]
  ELSE decodeMultiLineString_lines(h, m.v,
                                   decodeMultiLineString_loop(m.d, m.v.ngeoms, 0, <<>>))

decodeMultiLineString(d, h) == decodeMultiLineString_mhdr(h, readMHdr(d))

RECURSIVE decodeMultiPolygon_loop(_, _, _, _)

\* lines 337-341
decodeMultiPolygon_poly(n, idx, polys, p) ==
  IF p.err # Nil THEN [d |-> p.d, v |-> <<>>, err |-> p.err]
  ELSE decodeMultiPolygon_loop(p.d, n, idx + 1, Append(polys, p.v))

\* lines 334-342
decodeMultiPolygon_loop(d, n, idx, polys) ==
  IF ~SLess(U64(idx), n) THEN [d |-> d, v |-> polys, err |-> Nil]
  ELSE decodeMultiPolygon_poly(n, idx, polys, decodePolygon(d, NilHdr))

\* line 344
decodeMultiPolygon_polys(h, m, ms) ==
  IF ms.err # Nil THEN [d |-> ms.d, v |-> NilGeom, err |-> ms.err]
  ELSE [d |-> ms.d,
        v |-> [go |-> "MultiPolygon", Hdr |-> h, Ids |-> m.idlist, Polygons |-> ms.v],
        err |-> Nil]

\* lines 326-332
decodeMultiPolygon_mhdr(h, m) ==
  IF m.err # Nil THEN [d |-> m.d, v |-> NilGeom, err |-> m.err]
  ELSE IF makePanics(32, m.v.ngeoms) THEN [d |-> m.d, v |-> NilGeom, err |-> Panic]
  ELSE decodeMultiPolygon_polys(h, m.v, decodeMultiPolygon_loop(m.d, m.v.ngeoms, 0, <<>>))

decodeMultiPolygon(d, h) == decodeMultiPolygon_mhdr(h, readMHdr(d))

(***************************************************************************)
(* Decode.                                                                 *)
(***************************************************************************)
RECURSIVE Decode(_)

RECURSIVE decodeCollection_loop(_, _, _, _)

\* decodeCollection_geom with the member put in front of the earlier ones
decodeCollection_geomFirst(d, n, idx, geoms, g) ==
  IF g.err # Nil THEN [d |-> [d EXCEPT !.r = g.r], v |-> <<>>, err |-> g.err]
  ELSE decodeCollection_loop([d EXCEPT !.r = g.r], n, idx + 1, <<g.geom>> \o geoms)

\* lines 360-365: the member's Decode ran on the shared reader
decodeCollection_geom(d, n, idx, geoms, g) ==
  IF g.err # Nil THEN [d |-> [d EXCEPT !.r = g.r], v |-> <<>>, err |-> g.err]
  ELSE decodeCollection_loop([d EXCEPT !.r = g.r], n, idx + 1, Append(geoms, g.geom))

\* lines 358-366
decodeCollection_loop(d, n, idx, geoms) ==
  IF ~SLess(U64(idx), n) THEN [d |-> d, v |-> geoms, err |-> Nil]
  ELSE decodeCollection_geom(d, n, idx, geoms, Decode(d.r))

\* line 368
decodeCollection_geoms(h, m, gs) ==
  IF gs.err # Nil THEN [d |-> gs.d, v |-> NilGeom, err |-> gs.err]
  ELSE [d |-> gs.d,
        v |-> [go |-> "GeometryCollection", Hdr |-> h, Ids |-> m.idlist,
               Geometries |-> gs.v],
        err |-> Nil]

\* lines 349-356
decodeCollection_mhdr(h, m) ==
  IF m.err # Nil THEN [d |-> m.d, v |-> NilGeom, err |-> m.err]
  ELSE IF makePanics(16, m.v.ngeoms) THEN [d |-> m.d, v |-> NilGeom, err |-> Panic]
  ELSE decodeCollection_geoms(h, m.v, decodeCollection_loop(m.d, m.v.ngeoms, 0, <<>>))

decodeCollection(d, h) == decodeCollection_mhdr(h, readMHdr(d))

\* math.Pow10(n) converted to int64: 10^n for the exponents the decoder
\* computes (0..7); a negative exponent would give a fraction, int64 of it 0
Pow10(n) == IF n < 0 THEN 0 ELSE 10^n

\* line 104; >> 4 of an int64 is the arithmetic shift
precisionOf(flag) == ToInt(unzigzag(U64(AndInt(flag, 240)))) \div 16

\* lines 190-207: the switch on the kind; past it Decode returns the header
Decode_body(d, h) ==
  CASE h.gtype = POINT -> decodePoint(d, h)
    [] h.gtype = LINESTRING -> decodeLineString(d, h)
    [] h.gtype = POLYGON -> decodePolygon(d, h)
    [] h.gtype = MULTIPOINT -> decodeMultiPoint(d, h)
    [] h.gtype = MULTILINESTRING -> decodeMultiLineString(d, h)
    [] h.gtype = MULTIPOLYGON -> decodeMultiPolygon(d, h)
    [] h.gtype = GEOMETRYCOLLECTION -> decodeCollection(d, h)
    [] OTHER -> [d |-> d, v |-> [go |-> "Hdr", Hdr |-> h], err |-> Nil]

RECURSIVE Decode_bboxLoop(_, _, _)

\* lines 177-183
Decode_bboxMax(idx, bb, lo, dl) ==
  IF dl.err # Nil THEN [d |-> dl.d, v |-> <<>>, err |-> dl.err]
  ELSE Decode_bboxLoop(dl.d, idx + 1,
         [bb EXCEPT ![idx + 1] = [num |-> lo.v, den |-> 1],
                    ![idx + 1 + dl.d.ndims] = [num |-> Add(lo.v, dl.v), den |-> 1]])

\* lines 170-175
Decode_bboxMin(idx, bb, lo) ==
  IF lo.err # Nil THEN [d |-> lo.d, v |-> <<>>, err |-> lo.err]
  ELSE Decode_bboxMax(idx, bb, lo, readVarSInt64(lo.d))

\* lines 169-184
Decode_bboxLoop(d, idx, bb) ==
  IF idx >= d.ndims THEN [d |-> d, v |-> bb, err |-> Nil]
  ELSE Decode_bboxMin(idx, bb, readVarSInt64(d))

\* lines 186-188: hdr.bbox is set, then the body is decoded
Decode_bboxDone(h, bb) ==
  IF bb.err # Nil THEN [d |-> bb.d, v |-> NilGeom, err |-> bb.err]
  ELSE Decode_body(bb.d, [h EXCEPT !.bbox = bb.v])

\* lines 165-168: the bounding box of the header
Decode_bbox(d, h) ==
  Decode_bboxDone(h,
    IF d.bbox
    THEN Decode_bboxLoop(d, 0, [i \in 1..(d.ndims * 2) |-> [num |-> Zero, den |-> 1]])
    ELSE [d |-> d, v |-> <<>>, err |-> Nil])

\* lines 160-163
Decode_sizeDone(h, sz) ==
  IF sz.err # Nil THEN [d |-> sz.d, v |-> NilGeom, err |-> sz.err]
  ELSE Decode_bbox([sz.d EXCEPT !.length = sz.v], h)

\* Decode_size with the size flag ignored: the varint stays in the stream
Decode_sizeUnread(d, h) ==
  Decode_sizeDone(h, [d |-> d, v |-> d.length, err |-> Nil])

\* lines 157-159: the size varint
Decode_size(d, h) ==
  Decode_sizeDone(h, IF d.size THEN readVarInt64(d)
                     ELSE [d |-> d, v |-> d.length, err |-> Nil])

\* zprec and mprec, lines 137-138
zprecOf(extended) == AndInt(extended, 28) \div 4
mprecOf(extended) == AndInt(extended, 224) \div 32

\* lines 133-154: the switch on the extended-dimensions byte
Decode_dims(d, h, extended) ==
  IF AndInt(extended, XYZM) = XYZM
  THEN Decode_size([d EXCEPT !.ndims = 4, !.factors[3] = Pow10(zprecOf(extended)),
                             !.factors[4] = Pow10(mprecOf(extended))],
                   [h EXCEPT !.dim = XYZM])
  ELSE IF AndInt(extended, XYZ) = XYZ
  THEN Decode_size([d EXCEPT !.ndims = 3, !.factors[3] = Pow10(zprecOf(extended))],
                   [h EXCEPT !.dim = XYZ])
  ELSE IF AndInt(extended, XYM) = XYM
  THEN Decode_size([d EXCEPT !.ndims = 3, !.factors[3] = Pow10(mprecOf(extended))],
                   [h EXCEPT !.dim = XYM])
  ELSE Decode_size(d, h)

\* lines 127-131
Decode_extended(h, re) ==
  IF re.err # Nil THEN [d |-> re.d, v |-> NilGeom, err |-> re.err]
  ELSE Decode_dims(re.d, h, re.v)

\* lines 115-121: the flags of the metadata byte, and the XY default
withFlags(d, flag) ==
  [d EXCEPT !.bbox = AndInt(flag, bbox) = bbox,
            !.size = AndInt(flag, size) = size,
            !.idlist = AndInt(flag, idlist) = idlist,
            !.empty = AndInt(flag, empty) = empty,
            !.ndims = 2]

\* lines 123-155
Decode_exprec(d, h, flag) ==
  IF AndInt(flag, exprec) = exprec THEN Decode_extended(h, read(d))
  ELSE Decode_size(d, h)

\* lines 109-121
Decode_meta(h, rf) ==
  IF rf.err # Nil THEN [d |-> rf.d, v |-> NilGeom, err |-> rf.err]
  ELSE Decode_exprec(withFlags(rf.d, rf.v), [h EXCEPT !.dim = XY], rf.v)

\* what Decode returns, with the reader it leaves behind
Decode_return(o) == [r |-> o.d.r, geom |-> o.v, err |-> o.err]

\* Decode_flag with the kind checked against the upper end only
Decode_flagUpper(rf) ==
  IF rf.err # Nil THEN [r |-> rf.d.r, geom |-> NilGeom, err |-> rf.err]
  ELSE IF AndInt(rf.v, 15) > GEOMETRYCOLLECTION
  THEN [r |-> rf.d.r, geom |-> NilGeom, err |-> ErrUnknownGeom]
  ELSE Decode_return(
         Decode_meta([gtype |-> AndInt(rf.v, 15), dim |-> XY, bbox |-> <<>>],
                     read([rf.d EXCEPT !.factors[1] = Pow10(precisionOf(rf.v)),
                                       !.factors[2] = Pow10(precisionOf(rf.v))])))

\* lines 89-109
Decode_flag(rf) ==
  IF rf.err # Nil THEN [r |-> rf.d.r, geom |-> NilGeom, err |-> rf.err]
  ELSE IF AndInt(rf.v, 15) > GEOMETRYCOLLECTION \/ AndInt(rf.v, 15) < POINT
  THEN [r |-> rf.d.r, geom |-> NilGeom, err |-> ErrUnknownGeom]
  ELSE Decode_return(
         Decode_meta([gtype |-> AndInt(rf.v, 15), dim |-> XY, bbox |-> <<>>],
                     read([rf.d EXCEPT !.factors[1] = Pow10(precisionOf(rf.v)),
                                       !.factors[2] = Pow10(precisionOf(rf.v))])))

\* Decode(r) (Geometry, error)
Decode(rd) == Decode_flag(read(newDecoder(rd)))

(***************************************************************************)
(* The state machine: a caller holds a reader over a byte stream and calls *)
(* Decode on it once.                                                      *)
(***************************************************************************)
\* the concatenations of at most n of the byte strings of T
RECURSIVE Tails(_, _)
Tails(T, n) ==
  IF n = 0 THEN {<<>>}
  ELSE {t \o s : t \in T \cup {<<>>}, s \in Tails(T, n - 1)}

Streams(H, T, n) == {h \o t : h \in H, t \in Tails(T, n)}

InitOn(S) ==
  /\ r \in {NewReader(data) : data \in S}
  /\ pc = "start"
  /\ geom = NilGeom
  /\ err = Nil

\* g, err := Decode(r)
Return(out) ==
  /\ r' = out.r
  /\ geom' = out.geom
  /\ err' = out.err
  /\ pc' = "done"

DecodeCall == pc = "start" /\ Return(Decode(r))

Next == DecodeCall

\* Streams of single bytes: a type byte (every kind, the unknown kinds 0 and
\* 8, odd and even precision nibbles), a metadata byte, then varints.
AllOnes == <<255, 255, 255, 255, 255, 255, 255, 255, 255, 1>>

MaxTail == 4

Heads ==
  {<<t, f>> : t \in {0, 1, 2, 3, 4, 5, 6, 7, 8, 17, 33}, f \in {0, 1, 4, 8}}

Tokens == {<<1>>, <<2>>, <<4>>, AllOnes}

Init == InitOn(Streams(Heads, Tokens, MaxTail))

Spec == Init /\ [][Next]_vars

\* Streams of whole values: the head of a collection or of a multi-geometry
\* (or nothing), then values, member bodies and stray bytes.
MaxValues == 3

ValueHeads ==
  {<<>>, <<7, 0, 2>>, <<23, 4, 2, 1, 2>>, <<5, 4, 2, 1, 2>>, <<6, 4, 1, 3, 1>>}

ValueTokens ==
  {<<1, 2, 4>>, <<1, 0, 2, 4>>, <<33, 8, 1, 3, 1, 5>>,
   <<2, 3, 5, 2, 4, 6, 8, 1, 2, 4>>, <<3, 0, 1, 1, 2, 2>>,
   <<4, 4, 2, 1, 2, 2, 4, 6, 8>>, <<7, 0, 1>>, <<0>>, <<24>>}

InitValues == InitOn(Streams(ValueHeads, ValueTokens, MaxValues))

SpecValues == InitValues /\ [][Next]_vars

(***************************************************************************)
(* The byte layout of a value as the specification gives it, followed on   *)
(* a stream without building a geometry.  A cursor holds the stream s, the *)
(* number p of bytes passed, and st: "ok", "short" (the stream ends inside *)
(* the value), "bad" (a kind outside 1..7) or "big" (a varint of more than *)
(* four bytes, which the integers here do not hold).  v is the last byte   *)
(* or varint, kind, fl and nd the kind, flags and dimensions of the value, *)
(* m its member count, e whether an empty flag was met.                    *)
(***************************************************************************)
LAt(s, p) ==
  [s |-> s, p |-> p, st |-> "ok", v |-> 0, kind |-> 0, fl |-> 0, nd |-> 0, m |-> 0,
   e |-> FALSE]

Bit(f, mask) == (f \div mask) % 2 = 1

\* unsigned u maps to signed u>>1 if even, -(u>>1)-1 if odd
ZigZag(u) == IF u % 2 = 0 THEN u \div 2 ELSE -(u \div 2) - 1

LByte(c) ==
  IF c.st # "ok" THEN c
  ELSE IF c.p >= Len(c.s) THEN [c EXCEPT !.st = "short"]
  ELSE [c EXCEPT !.p = @ + 1, !.v = c.s[c.p + 1]]

\* little-endian base-128, continuation bit = top bit
RECURSIVE LVarintFrom(_, _, _)
LVarintFrom(c, acc, k) ==
  IF c.st # "ok" THEN c
  ELSE IF c.p >= Len(c.s) THEN [c EXCEPT !.st = "short"]
  ELSE IF k >= 4 THEN [c EXCEPT !.st = "big"]
  ELSE IF c.s[c.p + 1] < 128
       THEN [c EXCEPT !.p = @ + 1, !.v = acc + c.s[c.p + 1] * 128^k]
       ELSE LVarintFrom([c EXCEPT !.p = @ + 1], acc + (c.s[c.p + 1] - 128) * 128^k, k + 1)

LVarint(c) == LVarintFrom(c, 0, 0)

\* n varints
RECURSIVE LSkip(_, _)
LSkip(c, n) == IF c.st # "ok" \/ n <= 0 THEN c ELSE LSkip(LVarint(c), n - 1)

LKind(c) ==
  IF c.st # "ok" THEN c
  ELSE IF c.v % 16 \in 1..7 THEN [c EXCEPT !.kind = c.v % 16]
  ELSE [c EXCEPT !.st = "bad"]

LMeta(c) ==
  IF c.st # "ok" THEN c ELSE [c EXCEPT !.fl = c.v, !.nd = 2, !.e = @ \/ Bit(c.v, 16)]

LDims(c) ==
  IF c.st # "ok" THEN c
  ELSE [c EXCEPT !.nd = IF c.v % 4 = 3 THEN 4 ELSE IF c.v % 4 = 0 THEN 2 ELSE 3]

LExt(c) == IF c.st = "ok" /\ Bit(c.fl, 8) THEN LDims(LByte(c)) ELSE c

LSize(c) == IF c.st = "ok" /\ Bit(c.fl, 2) THEN LVarint(c) ELSE c

LBBox(c) == IF c.st = "ok" /\ Bit(c.fl, 1) THEN LSkip(c, 2 * c.nd) ELSE c

\* type byte, metadata byte, extended dimensions, size, bounding box
LHeader(c) == LBBox(LSize(LExt(LMeta(LByte(LKind(LByte(c)))))))

LCount(c) == IF c.st # "ok" THEN c ELSE [c EXCEPT !.m = c.v]

LIds(c) == IF c.st = "ok" /\ Bit(c.fl, 4) THEN LSkip(c, c.m) ELSE c

\* the multi-header: the member count, then one id per member if flagged
LMulti(c) == LIds(LCount(LVarint(c)))

\* the coordinates a count just read declares
LCoords(c) == IF c.st # "ok" THEN c ELSE LSkip(c, c.v * c.nd)

LLine(c) == LCoords(LVarint(c))

RECURSIVE LLines(_, _)
LLines(c, n) == IF c.st # "ok" \/ n <= 0 THEN c ELSE LLines(LLine(c), n - 1)

LRings(c) == IF c.st # "ok" THEN c ELSE LLines(c, c.v)

LPolygon(c) == LRings(LVarint(c))

RECURSIVE LPolygons(_, _)
LPolygons(c, n) == IF c.st # "ok" \/ n <= 0 THEN c ELSE LPolygons(LPolygon(c), n - 1)

RECURSIVE LValue(_)

\* the cursor of the collection past a member that ended as e
LInner(c, e) == [c EXCEPT !.p = e.p, !.st = e.st, !.e = @ \/ e.e]

RECURSIVE LMembers(_, _)
LMembers(c, n) ==
  IF c.st # "ok" \/ n <= 0 THEN c
  ELSE LMembers(LInner(c, LValue(LAt(c.s, c.p))), n - 1)

LBodyOf(c) ==
  CASE c.kind = 1 -> LSkip(c, c.nd)
    [] c.kind = 2 -> LLine(c)
    [] c.kind = 3 -> LPolygon(c)
    [] OTHER -> LMulti(c)

LTail(c) ==
  IF c.st # "ok" THEN c
  ELSE CASE c.kind = 4 -> LSkip(c, c.m * c.nd)
         [] c.kind = 5 -> LLines(c, c.m)
         [] c.kind = 6 -> LPolygons(c, c.m)
         [] c.kind = 7 -> LMembers(c, c.m)
         [] OTHER -> c

LBody(c) == IF c.st # "ok" THEN c ELSE LTail(LBodyOf(c))

LValue(c) == LBody(LHeader(c))

\* the value at the start of the stream of the call
Root == LValue(LAt(r.data, 0))

\* the multi-header of the value at p
MultiAt(s, p) == LMulti(LHeader(LAt(s, p)))

\* where member i of the collection at p starts and ends
MemberStart(s, p, i) == LMembers(MultiAt(s, p), i - 1).p
MemberEnd(s, p, i) == LMembers(MultiAt(s, p), i).p

\* Decode on the bytes of member i alone
MemberAlone(s, p, i) ==
  Decode(NewReader(SubSeq(s, MemberStart(s, p, i) + 1, MemberEnd(s, p, i))))

(***************************************************************************)
(* What the claims need of a returned geometry.                            *)
(***************************************************************************)
Ok == pc = "done" /\ err = Nil

KindOf(g) ==
  CASE g.go = "Point" -> POINT
    [] g.go = "LineString" -> LINESTRING
    [] g.go = "Polygon" -> POLYGON
    [] g.go = "MultiPoint" -> MULTIPOINT
    [] g.go = "MultiLineString" -> MULTILINESTRING
    [] g.go = "MultiPolygon" -> MULTIPOLYGON
    [] g.go = "GeometryCollection" -> GEOMETRYCOLLECTION
    [] OTHER -> 0

MembersOf(g) ==
  CASE g.go = "MultiPoint" -> g.Points
    [] g.go = "MultiLineString" -> g.LineStrings
    [] g.go = "MultiPolygon" -> g.Polygons
    [] g.go = "GeometryCollection" -> g.Geometries
    [] OTHER -> <<>>

RECURSIVE Flatten(_)
Flatten(seqs) == IF seqs = <<>> THEN <<>> ELSE Head(seqs) \o Flatten(Tail(seqs))

\* the coordinates a Point, LineString or Polygon holds, in reading order
CoordsOf(g) ==
  CASE g.go = "Point" -> <<g.Coord>>
    [] g.go = "LineString" -> g.Coords
    [] g.go = "Polygon" -> Flatten(g.Rings)
    [] OTHER -> <<>>

\* the stream has no flags and only varints of one byte
Plain == Len(r.data) >= 2 /\ r.data[2] = 0 /\ \A i \in 3..Len(r.data) : r.data[i] < 128

(***************************************************************************)
(* C1: a failed read anywhere during Decode makes it return an error and   *)
(* no geometry.                                                            *)
(***************************************************************************)
C1_AllOrNothing == pc = "done" /\ r.eof => err # Nil /\ geom = NilGeom

(***************************************************************************)
(* C2: the precision exponent p is the zigzag decoding of the high nibble  *)
(* of the type byte and X is the accumulated integer divided by 10^p, also *)
(* for a negative p.  Stated for the X of a Point without flags: num/den   *)
(* is acc / 10^p.                                                          *)
(***************************************************************************)
ScaledBy(c, acc, p) ==
  IF p >= 0 THEN ToInt(c.num) = acc /\ c.den = 10^p
  ELSE ToInt(c.num) = acc * c.den * 10^(-p)

C2_PrecisionOfNibble ==
  Ok /\ Plain /\ geom.go = "Point"
    => ScaledBy(geom.Coord[1], ZigZag(r.data[3]), ZigZag(r.data[1] \div 16))

(***************************************************************************)
(* C3: after a successful Decode every coordinate sequence has its         *)
(* declared count, and the k-th coordinate read is the sum of the first k  *)
(* zigzag-decoded deltas, the sums running on across rings.  Stated for a  *)
(* LineString and a Polygon in XY without flags and with varints of one    *)
(* byte, against the coordinates the stream declares.                      *)
(***************************************************************************)
RAt(s) == [s |-> s, p |-> 2, st |-> "ok", acc |-> <<0, 0>>, out |-> <<>>, rings |-> <<>>]

RMove(c) ==
  [c EXCEPT !.p = @ + 2,
            !.acc = <<@[1] + ZigZag(c.s[c.p + 1]), @[2] + ZigZag(c.s[c.p + 2])>>]

RPut(c) == [c EXCEPT !.out = Append(@, c.acc)]

RECURSIVE RCoords(_, _)
RCoords(c, n) ==
  IF c.st # "ok" \/ n = 0 THEN c
  ELSE IF c.p + 2 > Len(c.s) THEN [c EXCEPT !.st = "short"]
  ELSE RCoords(RPut(RMove(c)), n - 1)

RLine(c) ==
  IF c.p >= Len(c.s) THEN [c EXCEPT !.st = "short"]
  ELSE RCoords([c EXCEPT !.p = @ + 1, !.out = <<>>], c.s[c.p + 1])

RClose(c) == IF c.st # "ok" THEN c ELSE [c EXCEPT !.rings = Append(@, c.out)]

RECURSIVE RRings(_, _)
RRings(c, n) == IF c.st # "ok" \/ n = 0 THEN c ELSE RRings(RClose(RLine(c)), n - 1)

RPolygon(c) ==
  IF c.p >= Len(c.s) THEN [c EXCEPT !.st = "short"]
  ELSE RRings([c EXCEPT !.p = @ + 1], c.s[c.p + 1])

Nums(coords) ==
  [k \in 1..Len(coords) |-> <<ToInt(coords[k][1].num), ToInt(coords[k][2].num)>>]

C3_DeclaredCoordinates ==
  Ok /\ Plain =>
    /\ geom.go = "LineString" =>
         /\ RLine(RAt(r.data)).st = "ok"
         /\ Len(geom.Coords) = r.data[3]
         /\ Nums(geom.Coords) = RLine(RAt(r.data)).out
    /\ geom.go = "Polygon" =>
         /\ RPolygon(RAt(r.data)).st = "ok"
         /\ Len(geom.Rings) = r.data[3]
         /\ [i \in 1..Len(geom.Rings) |-> Nums(geom.Rings[i])] = RPolygon(RAt(r.data)).rings

(***************************************************************************)
(* C4: every geometry of the returned tree carries a header: the root, the *)
(* members of a collection, and the members of a Multi*, these with the    *)
(* member's kind and the parent's dimensionality.                          *)
(***************************************************************************)
HdrIs(g, kind, dim) == g.Hdr # NilHdr /\ g.Hdr.gtype = kind /\ g.Hdr.dim = dim

RECURSIVE Headed(_)
Headed(g) ==
  /\ g.Hdr # NilHdr
  /\ g.Hdr.gtype \in POINT..GEOMETRYCOLLECTION
  /\ g.Hdr.dim \in XY..XYZM
  /\ g.go \in {"MultiPoint", "MultiLineString", "MultiPolygon"} =>
       \A i \in 1..Len(MembersOf(g)) :
          HdrIs(MembersOf(g)[i], g.Hdr.gtype - 3, g.Hdr.dim)
  /\ g.go = "GeometryCollection" =>
       \A i \in 1..Len(g.Geometries) : Headed(g.Geometries[i])

C4_HeaderEverywhere == Ok => Headed(geom)

(***************************************************************************)
(* C5: a returned GeometryCollection has as many members as its count      *)
(* declares, in stream order, and member i is the geometry Decode returns  *)
(* on the bytes of member i alone, whatever the collection's precision and *)
(* flags and whatever the members before it held.                          *)
(***************************************************************************)
C5_MembersDecodedAlone ==
  Ok /\ geom.go = "GeometryCollection" =>
    /\ MultiAt(r.data, 0).st = "ok" => Len(geom.Geometries) = MultiAt(r.data, 0).m
    /\ Root.st = "ok" =>
         \A i \in 1..Len(geom.Geometries) :
            /\ MemberAlone(r.data, 0, i).err = Nil
            /\ MemberAlone(r.data, 0, i).geom = geom.Geometries[i]

\* a collection of a LineString and a Point of another precision and
\* dimensionality, both off the origin
C5_TwoMembers ==
  /\ Ok /\ geom.go = "GeometryCollection" /\ Root.st = "ok"
  /\ Len(geom.Geometries) = 2
  /\ geom.Geometries[1].go = "LineString"
  /\ geom.Geometries[2].go = "Point"
  /\ geom.Geometries[2].Hdr.dim = XYZ
  /\ Len(geom.Geometries[1].Coords) >= 1
  /\ geom.Geometries[2].Coord[1].den # geom.Geometries[1].Coords[1][1].den

(***************************************************************************)
(* C6: a first byte whose low nibble is 0 or above 7 makes Decode return   *)
(* ErrUnknownGeom and no geometry, whatever follows; so does such a byte   *)
(* at the start of a member of a collection, at any depth; otherwise the   *)
(* kind of the returned geometry is the nibble.                            *)
(***************************************************************************)
C6_UnknownKind ==
  pc = "done" =>
    /\ Len(r.data) >= 1 /\ r.data[1] % 16 \notin 1..7 =>
         err = ErrUnknownGeom /\ geom = NilGeom
    /\ Root.st = "bad" => err = ErrUnknownGeom /\ geom = NilGeom
    /\ err = Nil =>
         /\ r.data[1] % 16 \in 1..7
         /\ KindOf(geom) = r.data[1] % 16
         /\ geom.Hdr.gtype = r.data[1] % 16

\* the unknown kind starts the member of a collection that is itself the
\* second member of the collection of the call
C6_NestedUnknown ==
  /\ pc = "done" /\ Root.st = "bad" /\ err = ErrUnknownGeom /\ geom = NilGeom
  /\ r.data[1] % 16 = GEOMETRYCOLLECTION
  /\ LMembers(MultiAt(r.data, 0), 1).st = "ok"
  /\ Len(r.data) > MemberStart(r.data, 0, 2)
  /\ r.data[MemberStart(r.data, 0, 2) + 1] % 16 = GEOMETRYCOLLECTION
  /\ r.pos > MemberStart(r.data, 0, 2) + 3

(***************************************************************************)
(* C7: a returned MultiPoint, MultiLineString, MultiPolygon or collection, *)
(* at any depth, has with the id-list flag one id per member, the zigzag   *)
(* decoding of the varints that follow the member count, in order; without *)
(* the flag it has no ids and no byte is read for them.                    *)
(***************************************************************************)
\* the i-th varint past the member count of the value at p
IdAt(s, p, i) == LVarint(LSkip(LCount(LVarint(LHeader(LAt(s, p)))), i - 1))

IdsRight(g, s, p) ==
  IF Bit(s[p + 2], 4)
  THEN /\ Len(g.Ids) = Len(MembersOf(g))
       /\ \A i \in 1..Len(g.Ids) :
             IdAt(s, p, i).st = "ok" => ToInt(g.Ids[i]) = ZigZag(IdAt(s, p, i).v)
  ELSE g.Ids = <<>>

RECURSIVE IdsEverywhere(_, _, _)
IdsEverywhere(g, s, p) ==
  /\ KindOf(g) >= MULTIPOINT => IdsRight(g, s, p)
  /\ g.go = "GeometryCollection" =>
       \A i \in 1..Len(g.Geometries) :
          IdsEverywhere(g.Geometries[i], s, MemberStart(s, p, i))

C7_IdList ==
  Ok => /\ IdsEverywhere(geom, r.data, 0)
        /\ Root.st = "ok" => r.pos = Root.p

\* a MultiLineString of two members with the ids -1 and 1
C7_TwoIds ==
  /\ Ok /\ geom.go = "MultiLineString" /\ Root.st = "ok"
  /\ Len(geom.LineStrings) = 2
  /\ Len(geom.Ids) = 2
  /\ ToInt(geom.Ids[1]) = -1
  /\ ToInt(geom.Ids[2]) = 1

(***************************************************************************)
(* C8: Decode of a well-formed value with no empty flag succeeds, leaves   *)
(* the stream right past the value without having hit its end, and gives   *)
(* the geometry and position it gives on the value's bytes alone: what     *)
(* follows the value changes nothing.                                      *)
(***************************************************************************)
ValueAlone == Decode(NewReader(SubSeq(r.data, 1, Root.p)))

C8_ExactBytes ==
  pc = "done" /\ Root.st = "ok" /\ ~Root.e =>
    /\ err = Nil
    /\ r.pos = Root.p
    /\ ~r.eof
    /\ ValueAlone.err = Nil
    /\ ValueAlone.geom = geom
    /\ ValueAlone.r.pos = r.pos

\* a LineString with a size and a bounding box, and bytes after it
C8_BytesFollow ==
  /\ Ok /\ Root.st = "ok" /\ ~Root.e
  /\ geom.go = "LineString"
  /\ Bit(r.data[2], 2) /\ Bit(r.data[2], 1)
  /\ r.pos < Len(r.data)

(***************************************************************************)
(* C9: Decode returns a geometry or an error for every finite stream and   *)
(* never faults, whatever 64-bit value a count varint holds.               *)
(***************************************************************************)
C9_NeverFaults == pc = "done" => err # Panic

(***************************************************************************)
(* C10: with the bbox flag the header holds, per dimension, the minimum    *)
(* read and the minimum plus the delta read; without it the header of a    *)
(* Point, LineString or Polygon holds the least and the greatest value of  *)
(* the coordinates read, per dimension.  Stated in XY with varints of one  *)
(* byte.                                                                   *)
(***************************************************************************)
BoxNums(bb) == [i \in 1..Len(bb) |-> ToInt(bb[i].num)]

AxisOf(g, j) == {ToInt(CoordsOf(g)[k][j].num) : k \in 1..Len(CoordsOf(g))}

Least(S) == CHOOSE x \in S : \A y \in S : x <= y
Greatest(S) == CHOOSE x \in S : \A y \in S : y <= x

C10_HeaderBBox ==
  /\ Ok /\ Len(r.data) >= 6 /\ r.data[2] = 1 /\ (\A i \in 3..6 : r.data[i] < 128) =>
       BoxNums(geom.Hdr.bbox) =
         <<ZigZag(r.data[3]), ZigZag(r.data[5]),
           ZigZag(r.data[3]) + ZigZag(r.data[4]), ZigZag(r.data[5]) + ZigZag(r.data[6])>>
  /\ Ok /\ Plain /\ CoordsOf(geom) # <<>> =>
       /\ Len(geom.Hdr.bbox) = 4
       /\ BoxNums(geom.Hdr.bbox) =
            <<Least(AxisOf(geom, 1)), Least(AxisOf(geom, 2)),
              Greatest(AxisOf(geom, 1)), Greatest(AxisOf(geom, 2))>>

====
